---- MODULE Spec2Model ----
(***************************************************************************)
(* Mailbox synchronisation and three-tier read path of selfecho            *)
(* (backend/internal/app/app.go): one IMAP account, the remote INBOX, the  *)
(* imap_accounts / imap_messages tables, the request goroutine that runs   *)
(* listImapMessages / getImapMessage and the background goroutine started  *)
(* by syncImapAccountAsync.                                                *)
(*                                                                         *)
(* Database: every statement outside a transaction is atomic on its own;   *)
(* statements of a transaction are buffered in the runner (txDel, txUps)   *)
(* and applied at Commit (PostgreSQL READ COMMITTED: a DELETE removes the  *)
(* rows visible when the statement ran, rows committed later survive it).  *)
(***************************************************************************)
EXTENDS Integers, Sequences, FiniteSets, TLC

\* ---------------------------------------------------------------- bounds
MaxMsgs == 2          \* messages ever delivered to the remote mailbox
MaxEpoch == 2         \* UIDVALIDITY values the remote goes through
ListSyncLimit == 2    \* stands for the 50 of listImapMessages
GetSyncLimit == 1     \* stands for the 20 of getImapMessage
PageLimit == 1        \* the limit query parameter of listImapMessages
MaxPage == 2          \* the page query parameter of listImapMessages
SyncTimeout == 2      \* clock ticks that stand for the 30 s of syncImapAccountAsync
MaxNew == 2           \* new entries one sync fetches the detail of
ListTTL == 1          \* clock ticks that stand for the 30 s of newListCache
MaxTime == 3          \* clock ticks of the list cache's run
MaxWrites == 2        \* successful writes to the article/archive store
MaxReads == 3         \* cache.get calls counted by hits and misses
MaxPlain == 2         \* bytes of a plaintext given to encryptSecret
MaxSeals == 2         \* calls of encryptSecret in one run
NonceSize == 1        \* stands for the 12 bytes of gcm.NonceSize()
MaxParts == 2         \* parts of a message body
MaxData == 1          \* characters of a part's content
MaxRaw == 2           \* characters of a body that does not parse

Handlers == {"req"}
Background == {"bg"}
Runners == Handlers \cup Background

VARIABLES
    mailbox,            \* remote INBOX: sequence of [uid, id, seen], by sequence number
    uidValidity,        \* remote UIDVALIDITY
    uidNext,            \* remote UIDNEXT
    nextId,             \* identity of the next delivered message
    rows,               \* table imap_messages of the account
    last_uid,           \* imap_accounts.last_uid
    last_uidvalidity,   \* imap_accounts.last_uidvalidity
    sync,               \* per goroutine: the frame of syncImapAccount
    req,                \* per request goroutine: the frame of the handler
    hist,               \* history of the run, read by the properties only
    imap,               \* per goroutine: the call of an IMAP function, step by step
    sessions,           \* protocol sessions open on the remote server
    silent,             \* the remote server has stopped answering
    clock,              \* ticks since the background goroutine made its context
    articles,           \* article/archive store: the number of its last committed write
    cache,              \* s.cache: [data, hits, misses]
    now,                \* time.Now() of the list cache
    lreq,               \* per goroutine: the frame of listArticles
    wreq,               \* per goroutine: the frame of a write handler
    chist,              \* history of the list cache's run, read by the properties only
    vault,              \* the calls of encryptSecret made, the last call of decryptSecret
    acct,               \* the account pickImapAccount returned and the IMAP call made with it
    mime                \* the body given to parseBody, its result, the message made of it

net == <<imap, sessions, silent, clock>>
lists == <<articles, cache, now, lreq, wreq, chist>>
aux == <<acct, mime>>
ext == <<net, lists, vault, aux>>
vars == <<mailbox, uidValidity, uidNext, nextId, rows, last_uid, last_uidvalidity,
          sync, req, hist, ext>>
remote == <<mailbox, uidValidity, uidNext, nextId>>
db == <<rows, last_uid, last_uidvalidity>>

\* ---------------------------------------------------------------- helpers
Max(a, b) == IF a > b THEN a ELSE b
Min(a, b) == IF a < b THEN a ELSE b

\* UNIQUE(account_id, uid, uidvalidity)
Key(r) == <<r.uid, r.uidvalidity>>

\* INSERT ... ON CONFLICT (account_id, uid, uidvalidity) DO UPDATE SET ...
InsertOnly(R, row) == R \cup {row}
Upsert(R, row) == {x \in R : Key(x) # Key(row)} \cup {row}

RECURSIVE ApplyUpserts(_, _)
ApplyUpserts(R, ups) ==
    IF ups = <<>> THEN R
    ELSE ApplyUpserts(Upsert(R, Head(ups)), Tail(ups))

\* tx.Commit(): the buffered DELETE, then the buffered upserts
CommitRows(R, del, ups) == ApplyUpserts(R \ del, ups)

\* first sequence number of the fetch window
WindowFromOldest(messages, limit) == 1

WindowFrom(messages, limit) ==
    IF messages > limit THEN messages - limit + 1 ELSE 1

\* c.Fetch(set, {Envelope, Flags, Uid}): the uids at the window's positions
FetchWindow(box, messages, limit) ==
    LET from == WindowFrom(messages, limit)
        to == Min(messages, Len(box))
    IN  [k \in 1..Max(0, to - from + 1) |-> box[from + k - 1].uid]

\* fetchImapMessageDetail: seqset.AddNum(uid); c.Fetch(seqset, ...) addresses
\* the message by sequence number
DetailFound(box, uid) == uid \in 1..Len(box)
Detail(box, uid) == box[uid]

\* ---------------------------------------------------------------- frames
\* A frame holds the locals that are still read later; the others are dropped.
SyncOff ==
    [pc |-> "off", LastUID |-> 0, LastUIDValidity |-> 0, limit |-> 0,
     UidValidity |-> 0, fetched |-> <<>>, todo |-> <<>>, maxUID |-> 0,
     txDel |-> {}, txUps |-> <<>>, err |-> ""]

SyncStart(uid, validity, limit) ==
    [SyncOff EXCEPT !.pc = "connect", !.LastUID = uid,
                    !.LastUIDValidity = validity, !.limit = limit]

\* return err (e names the statement that failed) / return nil (e = "")
SyncReturn(e) == [SyncOff EXCEPT !.pc = "ret", !.err = e]

\* the entries of `fetched` the loop does not skip (uid > acc.LastUID), in the
\* loop's order: from the last fetched entry down to the first
RECURSIVE NewEntriesAll(_, _)
NewEntriesAll(fetched, lastUID) ==
    IF fetched = <<>> THEN <<>>
    ELSE LET n == Len(fetched)
         IN  <<fetched[n]>> \o NewEntriesAll(SubSeq(fetched, 1, n - 1), lastUID)

RECURSIVE NewEntries(_, _)
NewEntries(fetched, lastUID) ==
    IF fetched = <<>> THEN <<>>
    ELSE LET n == Len(fetched)
             rest == NewEntries(SubSeq(fetched, 1, n - 1), lastUID)
         IN  IF fetched[n] <= lastUID THEN rest ELSE <<fetched[n]>> \o rest

ReqIdle ==
    [pc |-> "idle", kind |-> "none", page |-> 0, uid |-> 0,
     LastUID |-> 0, LastUIDValidity |-> 0,
     msgs |-> <<>>, total |-> 0, tier1 |-> <<>>, tiers |-> <<>>,
     launched |-> 0, syncErr |-> FALSE, liveErr |-> FALSE,
     resp |-> [status |-> 0, body |-> <<>>, total |-> 0]]

\* c.JSON(status, ...): the handler is over; its locals are dropped, the
\* record of the request (kind, parameters, tiers taken, response) is kept
Respond(q, status, body, total) ==
    [q EXCEPT !.pc = "done", !.msgs = <<>>, !.total = 0,
              !.LastUID = 0, !.LastUIDValidity = 0,
              !.resp = [status |-> status, body |-> body, total |-> total]]

\* the imapMessage built from a row or from a fetched message
Message(uid, id) == [uid |-> uid, id |-> id]

\* ORDER BY msg_date DESC: a message's date is its delivery order (id);
\* rows of one date are ordered by uid, then uidvalidity
Later(a, b) ==
    \/ a.id > b.id
    \/ a.id = b.id /\ a.uid > b.uid
    \/ a.id = b.id /\ a.uid = b.uid /\ a.uidvalidity > b.uidvalidity

RECURSIVE ByDateDesc(_)
ByDateDesc(R) ==
    IF R = {} THEN <<>>
    ELSE LET top == CHOOSE x \in R : \A y \in R \ {x} : Later(x, y)
         IN  <<Message(top.uid, top.id)>> \o ByDateDesc(R \ {top})

\* readCachedMessages: ... ORDER BY msg_date DESC NULLS LAST LIMIT $2 OFFSET $3
readCachedMessages(R, limit, offset) ==
    LET all == ByDateDesc(R)
    IN  SubSeq(all, offset + 1, Min(Len(all), offset + limit))

\* countCachedMessages: SELECT COUNT(*)
countCachedMessages(R) == Cardinality(R)

\* readCachedMessage: ... WHERE account_id=$1 AND uid=$2 (QueryRow: any one
\* of the matching rows)
readCachedMessage(R, uid) ==
    {Message(x.uid, x.id) : x \in {y \in R : y.uid = uid}}

\* fetchImapMessages: the window, newest first
fetchImapMessages(box, limit) ==
    LET n == Len(box)
        from == WindowFrom(n, limit)
    IN  [k \in 1..(IF n = 0 THEN 0 ELSE n - from + 1) |->
            Message(box[n - k + 1].uid, box[n - k + 1].id)]

\* fetchImapMessageDetail's result: UID: msg.Uid of the message fetched
fetchImapMessageDetail(box, uid) ==
    Message(Detail(box, uid).uid, Detail(box, uid).id)

\* a protocol session of one function call: where the call stands, whether
\* its client is connected, whether its fetch has succeeded
ConnOff == [pc |-> "off", open |-> FALSE, ok |-> FALSE]

\* the call of syncImapAccount ("sync"), fetchImapMessages ("list") or
\* fetchImapMessageDetail ("detail") by one goroutine; inner is the
\* fetchImapMessageDetail call made from the loop of syncImapAccount
CallOff ==
    [fn |-> "none", tls |-> FALSE, deadline |-> FALSE, conn |-> ConnOff,
     inner |-> ConnOff, todo |-> 0, ret |-> ""]

NetInit ==
    /\ imap = [p \in Runners |-> CallOff]
    /\ sessions = 0
    /\ silent = FALSE
    /\ clock = 0

\* the keys of the list cache: (status, archive, page, limit, compact)
ListKeys == {"p1", "p2"}
Listers == {"l1", "l2"}
Writers == {"w1"}

NoEntry == [items |-> -1, cachedAt |-> -1]

\* newListCache(ttl)
newListCache == [data |-> [k \in ListKeys |-> NoEntry], hits |-> 0, misses |-> 0]

ListIdle == [pc |-> "idle", key |-> "p1", hit |-> FALSE, items |-> -1,
             status |-> 0]
WriteIdle == [pc |-> "idle"]

\* a run of reads of one key: its first read's time, its reads, the misses
\* and hits they recorded, whether one of them was answered with an error
NoWindow == [t0 |-> -1, n |-> 0, miss |-> 0, hit |-> 0, failed |-> FALSE,
             fresh |-> TRUE]

ListsInit ==
    /\ articles = 0
    /\ cache = newListCache
    /\ now = 0
    /\ lreq = [l \in Listers |-> ListIdle]
    /\ wreq = [w \in Writers |-> WriteIdle]
    /\ chist = [win |-> [k \in ListKeys |-> NoWindow], finished |-> 0,
                after |-> [l \in Listers |-> 0]]

\* no secret sealed, nothing opened
VaultInit ==
    vault = [made |-> <<>>,
             last |-> [of |-> 0, key |-> 0, text |-> <<>>, err |-> FALSE,
                       plain |-> <<>>]]

\* no account picked, no call under way. Password is acc.Password: the
\* characters of the stored text (sealed) or of a plaintext; secret is the
\* password the account was created with, which the server accepts
AcctOff ==
    [pc |-> "off", fn |-> "none", Password |-> [sealed |-> FALSE, chars |-> <<>>],
     secret |-> <<>>,
     decErr |-> FALSE, logins |-> 0, err |-> ""]

AcctInit == acct = AcctOff

\* no body parsed yet
NoBody == [parses |-> TRUE, raw |-> <<>>, left |-> <<>>, parts |-> <<>>, broken |-> 0]
NoResult == [body |-> <<>>, err |-> FALSE]
MimeIdle == [pc |-> "idle", in |-> NoBody, out |-> NoResult, Body |-> <<>>]
MimeInit == mime = MimeIdle

\* ---------------------------------------------------------------- Init
Init ==
    /\ mailbox = <<>>
    /\ uidValidity = 1
    /\ uidNext = 1
    /\ nextId = 1
    /\ rows = {}
    /\ last_uid = 0
    /\ last_uidvalidity = 0
    /\ sync = [r \in Runners |-> SyncOff]
    /\ req = [h \in Handlers |-> ReqIdle]
    /\ hist = [faults |-> FALSE, seenVer |-> -1, okVer |-> -1]
    /\ NetInit
    /\ ListsInit
    /\ VaultInit
    /\ AcctInit
    /\ MimeInit

\* ---------------------------------------------------------------- remote
\* a message is delivered: next uid of the epoch, fresh identity
Deliver ==
    /\ nextId <= MaxMsgs
    /\ mailbox' = Append(mailbox, [uid |-> uidNext, id |-> nextId, seen |-> FALSE])
    /\ uidNext' = uidNext + 1
    /\ nextId' = nextId + 1
    /\ UNCHANGED <<uidValidity, db, sync, req>>

\* another client reads the message at sequence number k: its flags change
MarkSeen(k) ==
    /\ k \in 1..Len(mailbox)
    /\ ~mailbox[k].seen
    /\ mailbox' = [mailbox EXCEPT ![k].seen = TRUE]
    /\ UNCHANGED <<uidValidity, uidNext, nextId, db, sync, req>>

\* another client expunges the message at sequence number k
Expunge(k) ==
    /\ k \in 1..Len(mailbox)
    /\ mailbox' = [j \in 1..(Len(mailbox) - 1) |->
                      IF j < k THEN mailbox[j] ELSE mailbox[j + 1]]
    /\ UNCHANGED <<uidValidity, uidNext, nextId, db, sync, req>>

\* the server renumbers the mailbox: new UIDVALIDITY, uids 1..n
EpochChange ==
    /\ uidValidity < MaxEpoch
    /\ uidValidity' = uidValidity + 1
    /\ mailbox' = [j \in 1..Len(mailbox) |-> [mailbox[j] EXCEPT !.uid = j]]
    /\ uidNext' = Len(mailbox) + 1
    /\ UNCHANGED <<nextId, db, sync, req>>

\* ---------------------------------------------------------------- syncImapAccount
\* A caller (a request goroutine on a cache miss, or the goroutine of
\* syncImapAccountAsync) reads the account with pickImapAccount and passes it
\* to syncImapAccount with its limit (50 or 20).
SyncPick(r, limit) ==
    /\ sync[r].pc = "off"
    /\ sync' = [sync EXCEPT ![r] = SyncStart(last_uid, last_uidvalidity, limit)]
    /\ UNCHANGED <<remote, db, req>>

\* syncImapAccount has returned to a caller that only logs the error
SyncDone(r) ==
    /\ sync[r].pc = "ret"
    /\ sync' = [sync EXCEPT ![r] = SyncOff]
    /\ UNCHANGED <<remote, db, req>>

\* Dial, StartTLS, Login, Select("INBOX"), and for a non-empty mailbox the
\* window Fetch in the same session and BeginTx. Without a UIDVALIDITY change
\* the loop starts from acc.LastUID.
SyncConnect(r) ==
    /\ sync[r].pc = "connect"
    /\ \E ok \in BOOLEAN :
         LET s == sync[r]
             fetched == FetchWindow(mailbox, Len(mailbox), s.limit)
             rollover == s.LastUIDValidity # 0 /\ s.LastUIDValidity # uidValidity
         IN  sync' = [sync EXCEPT ![r] =
                IF ~ok THEN SyncReturn("connect")
                ELSE IF Len(mailbox) = 0
                THEN [SyncOff EXCEPT !.pc = "emptyDelete", !.UidValidity = uidValidity]
                ELSE IF rollover
                THEN [SyncOff EXCEPT !.pc = "rollover", !.UidValidity = uidValidity,
                                     !.fetched = fetched,
                                     !.todo = NewEntries(fetched, 0)]
                ELSE [SyncOff EXCEPT !.pc = "loop", !.UidValidity = uidValidity,
                                     !.fetched = fetched,
                                     !.todo = NewEntries(fetched, s.LastUID),
                                     !.maxUID = s.LastUID]]
    /\ UNCHANGED <<remote, db, req>>

\* mbox.Messages == 0: DELETE FROM imap_messages (error dropped)
SyncEmptyDelete(r) ==
    /\ sync[r].pc = "emptyDelete"
    /\ \E ok \in BOOLEAN : rows' = IF ok THEN {} ELSE rows
    /\ sync' = [sync EXCEPT ![r].pc = "emptyUpdate"]
    /\ UNCHANGED <<remote, last_uid, last_uidvalidity, req>>

\* mbox.Messages == 0: UPDATE imap_accounts (error dropped); return nil
SyncEmptyUpdate(r) ==
    /\ sync[r].pc = "emptyUpdate"
    /\ \E ok \in BOOLEAN :
         /\ last_uid' = IF ok THEN 0 ELSE last_uid
         /\ last_uidvalidity' = IF ok THEN sync[r].UidValidity ELSE last_uidvalidity
    /\ sync' = [sync EXCEPT ![r] = SyncReturn("")]
    /\ UNCHANGED <<remote, rows, req>>

\* acc.LastUIDValidity != 0 && != mbox.UidValidity: DELETE FROM imap_messages
\* in the transaction; acc.LastUID = 0
SyncRollover(r) ==
    /\ sync[r].pc = "rollover"
    /\ \E ok \in BOOLEAN :
         sync' = [sync EXCEPT ![r] =
            IF ~ok THEN SyncReturn("rollover")
            ELSE [@ EXCEPT !.txDel = rows, !.maxUID = 0, !.pc = "loop"]]
    /\ UNCHANGED <<remote, db, req>>

\* one iteration of the loop for an entry with uid > acc.LastUID
SyncLoop(r) ==
    /\ sync[r].pc = "loop"
    /\ sync[r].todo # <<>>
    /\ LET s == sync[r]
           uid == Head(s.todo)
       IN  \E detailOk, execOk \in BOOLEAN :
              IF ~(detailOk /\ DetailFound(mailbox, uid))
              THEN \* fetchImapMessageDetail failed: continue
                   sync' = [sync EXCEPT ![r].todo = Tail(s.todo),
                                        ![r].maxUID = Max(s.maxUID, uid)]
              ELSE IF ~execOk
              THEN sync' = [sync EXCEPT ![r] = SyncReturn("upsert")]
              ELSE LET d == Detail(mailbox, uid)
                       row == [uid |-> uid, uidvalidity |-> s.UidValidity,
                               id |-> d.id, seen |-> d.seen]
                   IN  sync' = [sync EXCEPT ![r].todo = Tail(s.todo),
                                            ![r].maxUID = Max(s.maxUID, uid),
                                            ![r].txUps = Append(s.txUps, row)]
    /\ UNCHANGED <<remote, db, req>>

\* UPDATE imap_accounts ...; tx.Commit()
SyncCommitUpdateOutsideTx(r) ==
    /\ sync[r].pc = "loop"
    /\ sync[r].todo = <<>>
    /\ \E ok \in BOOLEAN :
         /\ rows' = IF ok THEN CommitRows(rows, sync[r].txDel, sync[r].txUps)
                    ELSE rows
         /\ last_uid' = sync[r].maxUID
         /\ last_uidvalidity' = sync[r].UidValidity
         /\ sync' = [sync EXCEPT ![r] = SyncReturn(IF ok THEN "" ELSE "commit")]
    /\ UNCHANGED <<remote, req>>

SyncCommit(r) ==
    /\ sync[r].pc = "loop"
    /\ sync[r].todo = <<>>
    /\ \E ok \in BOOLEAN :
         IF ~ok
         THEN /\ sync' = [sync EXCEPT ![r] = SyncReturn("commit")]
              /\ UNCHANGED db
         ELSE /\ rows' = CommitRows(rows, sync[r].txDel, sync[r].txUps)
              /\ last_uid' = sync[r].maxUID
              /\ last_uidvalidity' = sync[r].UidValidity
              /\ sync' = [sync EXCEPT ![r] = SyncReturn("")]
    /\ UNCHANGED <<remote, req>>

\* ---------------------------------------------------------------- syncImapAccountAsync
\* the goroutine of syncImapAccountAsync logs the outcome and ends
BgExit(b) ==
    /\ sync[b].pc = "ret"
    /\ sync' = [sync EXCEPT ![b] = SyncOff]
    /\ UNCHANGED <<remote, db, req>>

\* go func(a imapAccount) {...}(acc): the goroutine works on a copy of the
\* account; a goroutine started while the modelled one is still running is
\* one whose Dial fails
syncImapAccountAsync(q, limit) ==
    [b \in Runners |->
        IF b \in Background /\ sync[b].pc = "off"
        THEN SyncStart(q.LastUID, q.LastUIDValidity, limit)
        ELSE sync[b]]

\* ---------------------------------------------------------------- handlers
SyncLimit(kind) == IF kind = "list" THEN ListSyncLimit ELSE GetSyncLimit

\* GET /imap/messages?page= : the parameters and pickImapAccount
StartList(h, page) ==
    /\ req[h].pc \in {"idle", "done"}
    /\ \E ok \in BOOLEAN :
         req' = [req EXCEPT ![h] =
            LET q == [ReqIdle EXCEPT !.kind = "list", !.page = page]
            IN  IF ~ok THEN Respond(q, 400, <<>>, 0)
                ELSE [q EXCEPT !.LastUID = last_uid,
                               !.LastUIDValidity = last_uidvalidity,
                               !.pc = "cache"]]
    /\ UNCHANGED <<remote, db, sync>>

\* GET /imap/messages/:uid : the parameter and pickImapAccount
StartGet(h, uid) ==
    /\ req[h].pc \in {"idle", "done"}
    /\ \E ok \in BOOLEAN :
         req' = [req EXCEPT ![h] =
            LET q == [ReqIdle EXCEPT !.kind = "get", !.uid = uid]
            IN  IF ~ok THEN Respond(q, 400, <<>>, 0)
                ELSE [q EXCEPT !.LastUID = last_uid,
                               !.LastUIDValidity = last_uidvalidity,
                               !.pc = "cache"]]
    /\ UNCHANGED <<remote, db, sync>>

\* listImapMessages: the first readCachedMessages
ListCache(h) ==
    /\ req[h].pc = "cache"
    /\ req[h].kind = "list"
    /\ \E ok \in BOOLEAN :
         req' = [req EXCEPT ![h] =
            IF ~ok THEN Respond([@ EXCEPT !.tiers = <<"cache">>], 500, <<>>, 0)
            ELSE LET m == readCachedMessages(rows, PageLimit, (@.page - 1) * PageLimit)
                 IN  [@ EXCEPT !.msgs = m, !.tier1 = m, !.tiers = <<"cache">>,
                               !.pc = "count"]]
    /\ UNCHANGED <<remote, db, sync>>

\* listImapMessages: the first countCachedMessages (error dropped), then the
\* branch on len(msgs) > 0; on a miss syncImapAccount(ctx, acc, 50) starts
ListCount(h) ==
    /\ req[h].pc = "count"
    /\ \E ok \in BOOLEAN :
         LET t == IF ok THEN countCachedMessages(rows) ELSE 0
         IN  IF Len(req[h].msgs) > 0
             THEN /\ req' = [req EXCEPT ![h].total = t, ![h].pc = "hitSpawn"]
                  /\ UNCHANGED sync
             ELSE /\ req' = [req EXCEPT ![h].total = t, ![h].pc = "syncing",
                                        ![h].tiers = Append(@, "sync")]
                  /\ sync' = [sync EXCEPT ![h] =
                        SyncStart(req[h].LastUID, req[h].LastUIDValidity,
                                  SyncLimit("list"))]
    /\ UNCHANGED <<remote, db>>

\* getImapMessage: the first readCachedMessage; on a miss (no row, or a
\* store error) syncImapAccount(ctx, acc, 20) starts
GetCache(h) ==
    /\ req[h].pc = "cache"
    /\ req[h].kind = "get"
    /\ \/ \E m \in readCachedMessage(rows, req[h].uid) :
            /\ req' = [req EXCEPT ![h].msgs = <<m>>, ![h].tier1 = <<m>>,
                                  ![h].tiers = <<"cache">>, ![h].pc = "hitSpawn"]
            /\ UNCHANGED sync
       \/ /\ req' = [req EXCEPT ![h].tiers = <<"cache", "sync">>,
                                 ![h].pc = "syncing"]
          /\ sync' = [sync EXCEPT ![h] =
                SyncStart(req[h].LastUID, req[h].LastUIDValidity, SyncLimit("get"))]
    /\ UNCHANGED <<remote, db>>

\* cache hit: s.syncImapAccountAsync(*acc, limit)
HitSpawn(h) ==
    /\ req[h].pc = "hitSpawn"
    /\ sync' = syncImapAccountAsync(req[h], SyncLimit(req[h].kind))
    /\ req' = [req EXCEPT ![h].launched = @ + 1, ![h].pc = "hitRespond"]
    /\ UNCHANGED <<remote, db>>

\* cache hit: c.JSON(http.StatusOK, msgs)
HitRespondAfterSync(h) ==
    /\ req[h].pc = "hitRespond"
    /\ \A b \in Background : sync[b].pc = "off"
    /\ req' = [req EXCEPT ![h] =
          Respond(@, 200,
                  IF @.kind = "list"
                  THEN readCachedMessages(rows, PageLimit, (@.page - 1) * PageLimit)
                  ELSE IF readCachedMessage(rows, @.uid) = {} THEN <<>>
                  ELSE <<CHOOSE m \in readCachedMessage(rows, @.uid) : TRUE>>,
                  @.total)]
    /\ UNCHANGED <<remote, db, sync>>

HitRespond(h) ==
    /\ req[h].pc = "hitRespond"
    /\ req' = [req EXCEPT ![h] = Respond(@, 200, @.msgs, @.total)]
    /\ UNCHANGED <<remote, db, sync>>

\* listImapMessages after syncImapAccount returned (its error is only
\* printed): the second readCachedMessages
ListRequeryOrAbort(h) ==
    /\ req[h].pc = "syncing"
    /\ req[h].kind = "list"
    /\ sync[h].pc = "ret"
    /\ sync' = [sync EXCEPT ![h] = SyncOff]
    /\ \E ok \in BOOLEAN :
         req' = [req EXCEPT ![h] =
            IF sync[h].err # ""
            THEN Respond([@ EXCEPT !.syncErr = TRUE], 500, <<>>, 0)
            ELSE LET q == [@ EXCEPT !.tiers = Append(@, "requery")]
                 IN  IF ~ok THEN Respond(q, 500, <<>>, 0)
                     ELSE [q EXCEPT !.msgs = readCachedMessages(rows, PageLimit,
                                                         (q.page - 1) * PageLimit),
                                    !.pc = "recount"]]
    /\ UNCHANGED <<remote, db>>

ListRequery(h) ==
    /\ req[h].pc = "syncing"
    /\ req[h].kind = "list"
    /\ sync[h].pc = "ret"
    /\ sync' = [sync EXCEPT ![h] = SyncOff]
    /\ \E ok \in BOOLEAN :
         req' = [req EXCEPT ![h] =
            LET q == [@ EXCEPT !.syncErr = (sync[h].err # ""),
                               !.tiers = Append(@, "requery")]
            IN  IF ~ok THEN Respond(q, 500, <<>>, 0)
                ELSE [q EXCEPT !.msgs = readCachedMessages(rows, PageLimit,
                                                           (q.page - 1) * PageLimit),
                               !.pc = "recount"]]
    /\ UNCHANGED <<remote, db>>

\* listImapMessages: the second countCachedMessages, then the branch on
\* len(msgs) == 0
ListRecount(h) ==
    /\ req[h].pc = "recount"
    /\ \E ok \in BOOLEAN :
         LET t == IF ok THEN countCachedMessages(rows) ELSE 0
         IN  req' = [req EXCEPT ![h] =
                IF Len(@.msgs) = 0
                THEN [@ EXCEPT !.total = t, !.pc = "live"]
                ELSE Respond(@, 200, @.msgs, t)]
    /\ UNCHANGED <<remote, db, sync>>

\* listImapMessages: fetchImapMessages(ctx, *acc, limit)
ListLiveStored(h) ==
    /\ req[h].pc = "live"
    /\ req[h].kind = "list"
    /\ \E ok \in BOOLEAN :
         LET q == [req[h] EXCEPT !.tiers = Append(@, "live")]
             fresh == fetchImapMessages(mailbox, PageLimit)
         IN  /\ req' = [req EXCEPT ![h] =
                   IF ok THEN Respond(q, 200, fresh, Len(fresh))
                   ELSE Respond([q EXCEPT !.liveErr = TRUE], 200, q.msgs, q.total)]
             /\ rows' = IF ok
                        THEN rows \cup {[uid |-> fresh[k].uid, uidvalidity |-> uidValidity,
                                         id |-> fresh[k].id, seen |-> FALSE] :
                                           k \in 1..Len(fresh)}
                        ELSE rows
    /\ UNCHANGED <<remote, last_uid, last_uidvalidity, sync>>

ListLive(h) ==
    /\ req[h].pc = "live"
    /\ req[h].kind = "list"
    /\ \E ok \in BOOLEAN :
         req' = [req EXCEPT ![h] =
            LET q == [@ EXCEPT !.tiers = Append(@, "live")]
                fresh == fetchImapMessages(mailbox, PageLimit)
            IN  IF ok THEN Respond(q, 200, fresh, Len(fresh))
                ELSE Respond([q EXCEPT !.liveErr = TRUE], 200, q.msgs, q.total)]
    /\ UNCHANGED <<remote, db, sync>>

\* getImapMessage after syncImapAccount returned: the second
\* readCachedMessage
GetRequery(h) ==
    /\ req[h].pc = "syncing"
    /\ req[h].kind = "get"
    /\ sync[h].pc = "ret"
    /\ sync' = [sync EXCEPT ![h] = SyncOff]
    /\ LET q == [req[h] EXCEPT !.syncErr = (sync[h].err # ""),
                               !.tiers = Append(@, "requery")]
       IN  \/ \E m \in readCachedMessage(rows, q.uid) :
                 req' = [req EXCEPT ![h] = Respond(q, 200, <<m>>, 0)]
           \/ req' = [req EXCEPT ![h] = [q EXCEPT !.pc = "live"]]
    /\ UNCHANGED <<remote, db>>

\* getImapMessage: fetchImapMessageDetail(ctx, *acc, uid)
GetLive(h) ==
    /\ req[h].pc = "live"
    /\ req[h].kind = "get"
    /\ \E ok \in BOOLEAN :
         req' = [req EXCEPT ![h] =
            LET q == [@ EXCEPT !.tiers = Append(@, "live")]
            IN  IF ok /\ DetailFound(mailbox, q.uid)
                THEN Respond(q, 200, <<fetchImapMessageDetail(mailbox, q.uid)>>, 0)
                ELSE Respond([q EXCEPT !.liveErr = TRUE], 500, <<>>, 0)]
    /\ UNCHANGED <<remote, db, sync>>

\* ---------------------------------------------------------------- history
\* the number of changes the remote mailbox has gone through
RemoteVer ==
    (nextId - 1) + (uidValidity - 1) + 2 * ((nextId - 1) - Len(mailbox))
       + Cardinality({k \in 1..Len(mailbox) : mailbox[k].seen})

\* the step is one whose error the code drops: a failed detail fetch, or a
\* failed statement of the empty-mailbox path that had something to do
FaultStep ==
    \E r \in Runners :
       \/ /\ sync[r].pc = "loop" /\ sync'[r].pc = "loop"
          /\ sync'[r].todo # sync[r].todo /\ sync'[r].txUps = sync[r].txUps
       \/ /\ sync[r].pc = "emptyDelete" /\ sync'[r].pc = "emptyUpdate"
          /\ rows # {} /\ rows' = rows
       \/ /\ sync[r].pc = "emptyUpdate" /\ sync'[r].pc = "ret"
          /\ <<last_uid, last_uidvalidity>> # <<0, sync[r].UidValidity>>
          /\ <<last_uid', last_uidvalidity'>> = <<last_uid, last_uidvalidity>>

NoteFaults == hist' = [hist EXCEPT !.faults = @ \/ FaultStep]

\* syncImapAccount returns nil in this step
ReturnsOk(r) ==
    sync[r].pc \notin {"off", "ret"} /\ sync'[r].pc = "ret" /\ sync'[r].err = ""

\* seenVer: the remote the running sync selected; okVer: the remote selected
\* by the last sync that returned nil
NoteVersions ==
    hist' = [hist EXCEPT
        !.seenVer = IF \E r \in Runners : sync[r].pc = "connect" /\ sync'[r].pc # "connect"
                    THEN RemoteVer ELSE @,
        !.okVer = IF \E r \in Runners : ReturnsOk(r) THEN hist.seenVer ELSE @]

\* ---------------------------------------------------------------- Next
\* the read path: a request goroutine, the background goroutine it starts,
\* and the remote mailbox
ReadNext ==
    \/ Deliver /\ UNCHANGED <<hist, ext>>
    \/ \E k \in 1..MaxMsgs : Expunge(k) /\ UNCHANGED <<hist, ext>>
    \/ EpochChange /\ UNCHANGED <<hist, ext>>
    \/ \E r \in Runners : SyncConnect(r) /\ UNCHANGED <<hist, ext>>
    \/ \E r \in Runners : SyncEmptyDelete(r) /\ UNCHANGED <<hist, ext>>
    \/ \E r \in Runners : SyncEmptyUpdate(r) /\ UNCHANGED <<hist, ext>>
    \/ \E r \in Runners : SyncRollover(r) /\ UNCHANGED <<hist, ext>>
    \/ \E r \in Runners : SyncLoop(r) /\ UNCHANGED <<hist, ext>>
    \/ \E r \in Runners : SyncCommit(r) /\ UNCHANGED <<hist, ext>>
    \/ \E b \in Background : BgExit(b) /\ UNCHANGED <<hist, ext>>
    \/ \E h \in Handlers, p \in 1..MaxPage : StartList(h, p) /\ UNCHANGED <<hist, ext>>
    \/ \E h \in Handlers, u \in 1..MaxMsgs : StartGet(h, u) /\ UNCHANGED <<hist, ext>>
    \/ \E h \in Handlers : ListCache(h) /\ UNCHANGED <<hist, ext>>
    \/ \E h \in Handlers : ListCount(h) /\ UNCHANGED <<hist, ext>>
    \/ \E h \in Handlers : GetCache(h) /\ UNCHANGED <<hist, ext>>
    \/ \E h \in Handlers : HitSpawn(h) /\ UNCHANGED <<hist, ext>>
    \/ \E h \in Handlers : HitRespond(h) /\ UNCHANGED <<hist, ext>>
    \/ \E h \in Handlers : ListRequery(h) /\ UNCHANGED <<hist, ext>>
    \/ \E h \in Handlers : ListRecount(h) /\ UNCHANGED <<hist, ext>>
    \/ \E h \in Handlers : ListLive(h) /\ UNCHANGED <<hist, ext>>
    \/ \E h \in Handlers : GetRequery(h) /\ UNCHANGED <<hist, ext>>
    \/ \E h \in Handlers : GetLive(h) /\ UNCHANGED <<hist, ext>>

ReadSpec == Init /\ [][ReadNext]_vars

\* the sync engine under overlap: two goroutines that each run
\* syncImapAccount again and again, and the remote mailbox
SyncNext ==
    \/ Deliver /\ NoteFaults /\ UNCHANGED ext
    \/ \E k \in 1..MaxMsgs : Expunge(k) /\ NoteFaults /\ UNCHANGED ext
    \/ EpochChange /\ NoteFaults /\ UNCHANGED ext
    \/ \E r \in Runners, l \in {ListSyncLimit, GetSyncLimit} : SyncPick(r, l) /\ NoteFaults /\ UNCHANGED ext
    \/ \E r \in Runners : SyncConnect(r) /\ NoteFaults /\ UNCHANGED ext
    \/ \E r \in Runners : SyncEmptyDelete(r) /\ NoteFaults /\ UNCHANGED ext
    \/ \E r \in Runners : SyncEmptyUpdate(r) /\ NoteFaults /\ UNCHANGED ext
    \/ \E r \in Runners : SyncRollover(r) /\ NoteFaults /\ UNCHANGED ext
    \/ \E r \in Runners : SyncLoop(r) /\ NoteFaults /\ UNCHANGED ext
    \/ \E r \in Runners : SyncCommit(r) /\ NoteFaults /\ UNCHANGED ext
    \/ \E r \in Runners : SyncDone(r) /\ NoteFaults /\ UNCHANGED ext

Spec == Init /\ [][SyncNext]_vars

\* the sync engine alone: one goroutine that runs syncImapAccount again and
\* again, each run starting after the one before has returned
SerialNext ==
    \/ Deliver /\ NoteVersions /\ UNCHANGED ext
    \/ \E k \in 1..MaxMsgs : Expunge(k) /\ NoteVersions /\ UNCHANGED ext
    \/ \E k \in 1..MaxMsgs : MarkSeen(k) /\ NoteVersions /\ UNCHANGED ext
    \/ EpochChange /\ NoteVersions /\ UNCHANGED ext
    \/ \E r \in Handlers, l \in {ListSyncLimit, GetSyncLimit} : SyncPick(r, l) /\ NoteVersions /\ UNCHANGED ext
    \/ \E r \in Handlers : SyncConnect(r) /\ NoteVersions /\ UNCHANGED ext
    \/ \E r \in Handlers : SyncEmptyDelete(r) /\ NoteVersions /\ UNCHANGED ext
    \/ \E r \in Handlers : SyncEmptyUpdate(r) /\ NoteVersions /\ UNCHANGED ext
    \/ \E r \in Handlers : SyncRollover(r) /\ NoteVersions /\ UNCHANGED ext
    \/ \E r \in Handlers : SyncLoop(r) /\ NoteVersions /\ UNCHANGED ext
    \/ \E r \in Handlers : SyncCommit(r) /\ NoteVersions /\ UNCHANGED ext
    \/ \E r \in Handlers : SyncDone(r) /\ NoteVersions /\ UNCHANGED ext

SerialSpec == Init /\ [][SerialNext]_vars

\* ================================================================ properties
\* the maximum uid among the rows of epoch e (0 when there is none)
MaxUidAt(R, e) ==
    LET U == {x.uid : x \in {y \in R : y.uidvalidity = e}}
    IN  IF U = {} THEN 0 ELSE CHOOSE u \in U : \A v \in U : v <= u

\* the step is the successful tx.Commit() of runner r
CommitsOk(r) ==
    sync[r].pc = "loop" /\ sync'[r].pc = "ret" /\ sync'[r].err = ""

\* the step is the return of the empty-mailbox path of runner r
EmptyReturns(r) ==
    sync[r].pc = "emptyUpdate" /\ sync'[r].pc = "ret"

\* runner r is between BeginTx and the end of its transaction
InTx(r) == sync[r].pc \in {"rollover", "loop"}

Quiescent == \A r \in Runners : sync[r].pc \in {"off", "ret"}

\* C1: after a sync of a non-empty mailbox that returns nil, last_uid is the
\* maximum uid among the persisted rows of epoch last_uidvalidity.
C1_LastUidIsMaxPersisted ==
    [][\A r \in Runners :
          CommitsOk(r) => last_uid' = MaxUidAt(rows', last_uidvalidity')]_vars

\* C2: a sync never commits a watermark at or above the uid of a message of
\* its fetch window that has no persisted row.
C2_NoWatermarkPastUnpersisted ==
    [][\A r \in Runners :
          CommitsOk(r) =>
             \A k \in 1..Len(sync[r].fetched) :
                sync[r].fetched[k] <= last_uid' =>
                   \E x \in rows' : /\ x.uid = sync[r].fetched[k]
                                    /\ x.uidvalidity = last_uidvalidity']_vars

\* C3: a step of a sync inside its transaction that is not its successful
\* commit (another statement, or the return of an error) leaves the rows and
\* the watermark as they are: they change together at the commit or not at all.
C3_CommitAtomicity ==
    [][\A r \in Runners :
          (InTx(r) /\ sync'[r] # sync[r] /\ ~CommitsOk(r)) => UNCHANGED db]_vars

\* a sync has returned the error of a statement of its transaction
C3_Witness ==
    \E r \in Runners : sync[r].pc = "ret" /\ sync[r].err \in {"upsert", "commit"}

\* C4: a sync that commits an epoch different from the non-zero persisted
\* last_uidvalidity leaves no row of another epoch behind (in a run in which
\* no error was dropped).
C4_RolloverLeavesNoOldRow ==
    [][\A r \in Runners :
          (CommitsOk(r) /\ ~hist'.faults /\ last_uidvalidity # 0
                        /\ last_uidvalidity # sync[r].UidValidity) =>
             \A x \in rows' : x.uidvalidity = sync[r].UidValidity]_vars

\* C5: once the overlapping syncs have finished (and no error was dropped on
\* the way), last_uid is the maximum persisted uid of the current epoch and
\* every row carries the persisted last_uidvalidity.
C5_OverlapLeavesSerialState ==
    (Quiescent /\ ~hist.faults /\ last_uidvalidity # 0) =>
        /\ last_uid = MaxUidAt(rows, last_uidvalidity)
        /\ \A x \in rows : x.uidvalidity = last_uidvalidity

\* C6: a sync that selects the remote mailbox the last successful sync
\* selected, unchanged since, changes neither the rows nor the watermark.
C6_SecondSyncChangesNothing ==
    [][\A r \in Runners :
          (/\ sync[r].pc \in {"emptyDelete", "emptyUpdate", "rollover", "loop"}
           /\ hist.okVer = hist.seenVer
           /\ RemoteVer = hist.seenVer) => UNCHANGED db]_vars

\* C7: when the empty-mailbox path returns, the account has no row, last_uid
\* is 0 and last_uidvalidity is the epoch just selected.
C7_EmptyMailboxResets ==
    [][\A r \in Runners :
          EmptyReturns(r) => /\ rows' = {}
                             /\ last_uid' = 0
                             /\ last_uidvalidity' = sync[r].UidValidity]_vars

\* C8: no two rows share (uid, uidvalidity).
C8_UniqueKey ==
    \A x, y \in rows : Key(x) = Key(y) => x = y

\* a transaction is about to commit an upsert onto an existing row of the
\* same key with other content
C8_Witness ==
    \E r \in Runners :
       /\ sync[r].pc = "loop" /\ sync[r].todo = <<>>
       /\ \E k \in 1..Len(sync[r].txUps) :
             \E x \in rows \ sync[r].txDel :
                Key(x) = Key(sync[r].txUps[k]) /\ x # sync[r].txUps[k]

\* the request of handler h was answered from the first cache query
IsHit(q) == q.tier1 # <<>>

\* C9: a request whose first cache query hits is answered 200 with exactly the
\* data that query returned, has started exactly one background sync and no
\* synchronous one, and its response is ready whatever the background sync is
\* doing; a request that misses starts no background sync.
C9_HitServesCacheAtOnce ==
    \A h \in Handlers :
       LET q == req[h]
       IN  /\ q.pc = "hitRespond" => (q.launched = 1 /\ ENABLED HitRespond(h))
           /\ (q.pc = "done" /\ IsHit(q)) =>
                 /\ q.resp.status = 200
                 /\ q.resp.body = q.tier1
                 /\ q.launched = 1
                 /\ q.tiers = <<"cache">>
           /\ ~IsHit(q) => q.launched = 0

\* a hit was answered while a background sync is still running
C9_Witness ==
    \E h \in Handlers, b \in Background :
       /\ req[h].pc = "done" /\ IsHit(req[h]) /\ req[h].resp.status = 200
       /\ sync[b].pc \in {"connect", "rollover", "loop", "emptyDelete", "emptyUpdate"}

TierOrder == <<"cache", "sync", "requery", "live">>

IsPrefix(s, t) ==
    Len(s) <= Len(t) /\ \A k \in 1..Len(s) : s[k] = t[k]

\* C10: the tiers are taken in the order cache, sync, re-query, live fetch;
\* a request that ran the synchronous sync always goes on to the re-query,
\* whatever the sync returned; the live fetch is tried only after an empty
\* re-query, and a request that ends at the re-query was answered by it (or
\* by the store error of the re-query itself).
C10_TierOrderOnMiss ==
    \A h \in Handlers :
       LET q == req[h]
       IN  /\ IsPrefix(q.tiers, TierOrder)
           /\ (q.pc = "done" /\ Len(q.tiers) >= 2) => Len(q.tiers) >= 3
           /\ q.pc = "live" => (q.tiers = SubSeq(TierOrder, 1, 3) /\ q.msgs = <<>>)
           /\ (q.pc = "done" /\ Len(q.tiers) = 3) =>
                 \/ q.resp.status = 200 /\ q.resp.body # <<>>
                 \/ q.resp.status = 500 /\ q.kind = "list"

\* the synchronous sync failed, and the request was still answered by the
\* live fetch after the re-query
C10_Witness ==
    \E h \in Handlers :
       /\ req[h].pc = "done" /\ req[h].syncErr
       /\ req[h].tiers = TierOrder
       /\ req[h].resp.status = 200 /\ req[h].resp.body # <<>>

\* every tier the request tried has failed: the cache had no answer, the
\* synchronous sync returned an error, the live fetch returned an error
AllTiersFailed(q) ==
    q.pc = "done" /\ q.tiers = TierOrder /\ q.syncErr /\ q.liveErr

\* C11: a request all of whose three tiers failed is answered with an error
\* status, and a request one of whose tiers yielded data is answered 200.
C11_ErrorIffAllTiersFail ==
    \A h \in Handlers :
       LET q == req[h]
       IN  /\ AllTiersFailed(q) => q.resp.status >= 400
           /\ (q.pc = "done" /\ q.resp.body # <<>>) => q.resp.status = 200

\* ================================================================ sessions
\* The IMAP functions command by command. Dial, StartTLS, Login, Select,
\* Fetch and Logout wait for the remote server and take no context; the
\* store statements take ctx and fail once its deadline has passed.
ImapPcs == {"dial", "starttls", "login", "select", "fetch"}
StorePcs == {"emptyDb", "begin", "upsert", "commit"}

\* the command that follows a command that succeeded
NextPc(fn, tls, pc, empty) ==
    CASE pc = "dial" -> IF tls THEN "starttls" ELSE "login"
      [] pc = "starttls" -> "login"
      [] pc = "login" -> "select"
      [] pc = "select" ->
           IF fn = "detail" \/ ~empty THEN "fetch"
           ELSE IF fn = "sync" THEN "emptyDb" ELSE "logout"
      [] pc = "fetch" -> IF fn = "sync" THEN "begin" ELSE "logout"

\* a `return err` after `defer c.Logout()`: the deferred logout runs first
OnErrorReturn(f, what) ==
    IF what = "starttls" THEN [CallOff EXCEPT !.ret = what]
    ELSE [f EXCEPT !.conn.pc = "logout", !.ret = what]

OnError(f, what) == [f EXCEPT !.conn.pc = "logout", !.ret = what]

\* ctx.Err() != nil for the statements of this call
Expired(f) == f.deadline /\ clock >= SyncTimeout

\* the goroutine p enters fn; the background goroutine makes its context
CallStart(p, fn, ssl, starttls) ==
    /\ imap[p].fn = "none"
    /\ p \in Background => fn = "sync"
    /\ imap' = [imap EXCEPT ![p] =
          [CallOff EXCEPT !.fn = fn, !.tls = (~ssl /\ starttls),
                          !.deadline = (p \in Background),
                          !.conn = [pc |-> "dial", open |-> FALSE, ok |-> FALSE]]]
    /\ clock' = IF p \in Background THEN 0 ELSE clock
    /\ UNCHANGED <<sessions, silent>>

\* the remote answers the pending command of p's session
ImapAnswer(p) ==
    /\ ~silent
    /\ imap[p].conn.pc \in ImapPcs
    /\ \E ok, empty \in BOOLEAN, n \in 0..MaxNew :
         LET f == imap[p]
             pc == f.conn.pc
         IN  IF pc = "dial" /\ ~ok
             THEN /\ imap' = [imap EXCEPT ![p] = [CallOff EXCEPT !.ret = "dial"]]
                  /\ UNCHANGED sessions
             ELSE IF ~ok
             THEN /\ imap' = [imap EXCEPT ![p] = OnError(f, pc)]
                  /\ UNCHANGED sessions
             ELSE /\ imap' = [imap EXCEPT ![p] =
                        [f EXCEPT !.conn.pc = NextPc(f.fn, f.tls, pc, empty),
                                  !.conn.open = TRUE,
                                  !.todo = IF pc = "fetch" /\ f.fn = "sync"
                                           THEN n ELSE 0]]
                  /\ sessions' = IF pc = "dial" THEN sessions + 1 ELSE sessions
    /\ UNCHANGED <<silent, clock>>

\* a statement of syncImapAccount on the store
StoreStep(p) ==
    /\ imap[p].conn.pc \in StorePcs
    /\ \E answer \in BOOLEAN :
         LET f == imap[p]
             pc == f.conn.pc
             ok == answer /\ ~Expired(f)
         IN  imap' = [imap EXCEPT ![p] =
                IF pc = "emptyDb" THEN [f EXCEPT !.conn.pc = "logout"]
                ELSE IF ~ok THEN OnError(f, "store")
                ELSE IF pc = "begin" THEN [f EXCEPT !.conn.pc = "loop"]
                ELSE IF pc = "upsert"
                     THEN [f EXCEPT !.conn.pc = "loop", !.todo = @ - 1]
                ELSE [f EXCEPT !.conn.pc = "logout"]]
    /\ UNCHANGED <<sessions, silent, clock>>

\* the loop of syncImapAccount: the next new entry's detail fetch, or the
\* UPDATE and Commit after the last one
LoopStep(p) ==
    /\ imap[p].conn.pc = "loop"
    /\ imap' = [imap EXCEPT ![p] =
          IF imap[p].todo = 0 THEN [@ EXCEPT !.conn.pc = "commit"]
          ELSE [@ EXCEPT !.conn.pc = "detail",
                         !.inner = [pc |-> "dial", open |-> FALSE, ok |-> FALSE]]]
    /\ UNCHANGED <<sessions, silent, clock>>

\* fetchImapMessageDetail returns to the loop: upsert, or continue
DetailReturned(f, ok) ==
    IF ok THEN [f EXCEPT !.inner = ConnOff, !.conn.pc = "upsert"]
    ELSE [f EXCEPT !.inner = ConnOff, !.conn.pc = "loop", !.todo = @ - 1]

\* the remote answers the pending command of the detail fetch inside the loop
DetailAnswer(p) ==
    /\ ~silent
    /\ imap[p].conn.pc = "detail"
    /\ imap[p].inner.pc \in ImapPcs
    /\ \E ok \in BOOLEAN :
         LET f == imap[p]
             pc == f.inner.pc
         IN  IF pc = "dial" /\ ~ok
             THEN /\ imap' = [imap EXCEPT ![p] = DetailReturned(f, FALSE)]
                  /\ UNCHANGED sessions
             ELSE IF ~ok
             THEN /\ imap' = [imap EXCEPT ![p].inner.pc = "logout"]
                  /\ UNCHANGED sessions
             ELSE /\ imap' = [imap EXCEPT ![p].inner =
                        [pc |-> NextPc("detail", f.tls, pc, FALSE),
                         open |-> TRUE, ok |-> (pc = "fetch")]]
                  /\ sessions' = IF pc = "dial" THEN sessions + 1 ELSE sessions
    /\ UNCHANGED <<silent, clock>>

\* the deferred c.Logout() of the detail fetch inside the loop
DetailLogout(p) ==
    /\ ~silent
    /\ imap[p].conn.pc = "detail"
    /\ imap[p].inner.pc = "logout"
    /\ sessions' = sessions - 1
    /\ imap' = [imap EXCEPT ![p] = DetailReturned(@, imap[p].inner.ok)]
    /\ UNCHANGED <<silent, clock>>

\* the deferred c.Logout() of the call, which then returns
Logout(p) ==
    /\ ~silent
    /\ imap[p].conn.pc = "logout"
    /\ sessions' = sessions - 1
    /\ imap' = [imap EXCEPT ![p] =
          [CallOff EXCEPT !.ret = IF imap[p].ret = "" THEN "nil" ELSE imap[p].ret]]
    /\ UNCHANGED <<silent, clock>>

\* the remote server stops answering, for good
GoSilent ==
    /\ ~silent
    /\ silent' = TRUE
    /\ UNCHANGED <<imap, sessions, clock>>

\* time passes while the background goroutine runs and the remote server is
\* not answering (a server that answers does so at once); a statement on
\* the store whose context has expired fails before any more time passes
Tick ==
    /\ clock <= SyncTimeout
    /\ silent
    /\ \E b \in Background : imap[b].fn # "none"
    /\ \A b \in Background :
          Expired(imap[b]) => imap[b].conn.pc \notin (StorePcs \cup {"loop"})
    /\ clock' = clock + 1
    /\ UNCHANGED <<imap, sessions, silent>>

mail == <<mailbox, uidValidity, uidNext, nextId, rows, last_uid, last_uidvalidity,
          sync, req, hist>>

SessionNext ==
    \/ \E p \in Runners, fn \in {"sync", "list", "detail"}, ssl, st \in BOOLEAN :
          CallStart(p, fn, ssl, st) /\ UNCHANGED <<mail, lists, vault, aux>>
    \/ \E p \in Runners : ImapAnswer(p) /\ UNCHANGED <<mail, lists, vault, aux>>
    \/ \E p \in Runners : StoreStep(p) /\ UNCHANGED <<mail, lists, vault, aux>>
    \/ \E p \in Runners : LoopStep(p) /\ UNCHANGED <<mail, lists, vault, aux>>
    \/ \E p \in Runners : DetailAnswer(p) /\ UNCHANGED <<mail, lists, vault, aux>>
    \/ \E p \in Runners : DetailLogout(p) /\ UNCHANGED <<mail, lists, vault, aux>>
    \/ \E p \in Runners : Logout(p) /\ UNCHANGED <<mail, lists, vault, aux>>
    \/ GoSilent /\ UNCHANGED <<mail, lists, vault, aux>>
    \/ Tick /\ UNCHANGED <<mail, lists, vault, aux>>

SessionSpec == Init /\ [][SessionNext]_vars

\* C12: a background sync has returned by the time its 30 s have passed,
\* whatever the remote server does.
C12_BackgroundSyncEndsByDeadline ==
    \A b \in Background : clock > SyncTimeout => imap[b].fn = "none"

\* the sessions the calls in progress hold
OpenCount ==
    Cardinality({p \in Runners : imap[p].conn.open})
        + Cardinality({p \in Runners : imap[p].inner.open})

\* C13: every session a call has opened is logged out before the call
\* returns, on every exit path: the open sessions are exactly those of the
\* calls in progress, and none is open when no call is in progress.
C13_SessionsAreScoped ==
    /\ sessions = OpenCount
    /\ (\A p \in Runners : imap[p].fn = "none") => sessions = 0

\* a call has returned the error of StartTLS, another has returned nil, and
\* no session is open
C13_Witness ==
    /\ \E p \in Runners : imap[p].fn = "none" /\ imap[p].ret = "starttls"
    /\ \E p \in Runners : imap[p].fn = "none" /\ imap[p].ret = "nil"
    /\ sessions = 0

\* ================================================================ list cache
\* listCache.get: the entry is there and time.Since(val.cachedAt) <= c.ttl
getBeforeTTL(data, k, t) ==
    ~(data[k] = NoEntry \/ t - data[k].cachedAt >= ListTTL)

get(data, k, t) ==
    ~(data[k] = NoEntry \/ t - data[k].cachedAt > ListTTL)

\* listCache.set
set(data, k, items, t) ==
    [data EXCEPT ![k] = [items |-> items, cachedAt |-> t]]

\* listCache.invalidateAll
invalidateNone(data) == data

invalidateAll(data) == [k \in ListKeys |-> NoEntry]

\* listArticles: the parameters and, for a status other than published,
\* ensureUser
ListStart(c, k) ==
    /\ lreq[c].pc \in {"idle", "done"}
    /\ \E auth \in BOOLEAN :
         lreq' = [lreq EXCEPT ![c] =
            IF auth THEN [ListIdle EXCEPT !.pc = "get", !.key = k]
            ELSE [ListIdle EXCEPT !.pc = "done", !.key = k, !.status = 401]]
    /\ UNCHANGED <<articles, cache, now, wreq>>

\* s.cache.get(...): a hit is answered from the entry
ListGet(c) ==
    /\ lreq[c].pc = "get"
    /\ cache.hits + cache.misses < MaxReads
    /\ LET k == lreq[c].key
       IN  IF get(cache.data, k, now)
           THEN /\ cache' = [cache EXCEPT !.hits = @ + 1]
                /\ lreq' = [lreq EXCEPT ![c].pc = "done", ![c].hit = TRUE,
                                        ![c].items = cache.data[k].items,
                                        ![c].status = 200]
           ELSE /\ cache' = [cache EXCEPT !.misses = @ + 1]
                /\ lreq' = [lreq EXCEPT ![c].pc = "query"]
    /\ UNCHANGED <<articles, now, wreq>>

\* the COUNT and SELECT of listArticles
ListQuery(c) ==
    /\ lreq[c].pc = "query"
    /\ \E ok \in BOOLEAN :
         lreq' = [lreq EXCEPT ![c] =
            IF ok THEN [@ EXCEPT !.pc = "set", !.items = articles]
            ELSE [@ EXCEPT !.pc = "done", !.status = 500]]
    /\ UNCHANGED <<articles, cache, now, wreq>>

\* s.cache.set(..., result, total); c.JSON(http.StatusOK, result)
ListSet(c) ==
    /\ lreq[c].pc = "set"
    /\ cache' = [cache EXCEPT !.data = set(@, lreq[c].key, lreq[c].items, now)]
    /\ lreq' = [lreq EXCEPT ![c].pc = "done", ![c].status = 200]
    /\ UNCHANGED <<articles, now, wreq>>

\* a write handler (create/update/delete of an article or archive): the
\* statement on the store; on success the response is written
WriteStore(w) ==
    /\ wreq[w].pc = "idle"
    /\ articles < MaxWrites
    /\ \E ok \in BOOLEAN :
         IF ok THEN /\ articles' = articles + 1
                    /\ wreq' = [wreq EXCEPT ![w].pc = "invalidate"]
         ELSE UNCHANGED <<articles, wreq>>
    /\ UNCHANGED <<cache, now, lreq>>

\* s.cache.invalidateAll(), the last statement of a write handler
WriteInvalidate(w) ==
    /\ wreq[w].pc = "invalidate"
    /\ cache' = [cache EXCEPT !.data = invalidateAll(@)]
    /\ wreq' = [wreq EXCEPT ![w].pc = "idle"]
    /\ UNCHANGED <<articles, now, lreq>>

\* time passes
ListTick ==
    /\ now < MaxTime
    /\ now' = now + 1
    /\ UNCHANGED <<articles, cache, lreq, wreq>>

\* no handler is running
ListsIdle ==
    /\ \A c \in Listers : lreq[c].pc \in {"idle", "done"}
    /\ \A w \in Writers : wreq[w].pc = "idle"

\* the run of reads of key k after the read in this step. A run begins
\* with the first read after the start or after a finished write (fresh),
\* or with a miss while no run is under way, and lasts for the TTL; a hit
\* outside any run belongs to none.
WindowAfterGet(k) ==
    LET w == chist.win[k]
        under == w.t0 # -1 /\ now - w.t0 <= ListTTL
        miss == cache'.misses - cache.misses
        hit == cache'.hits - cache.hits
    IN  IF under
        THEN [w EXCEPT !.n = @ + 1, !.miss = @ + miss, !.hit = @ + hit]
        ELSE IF w.fresh \/ miss = 1
        THEN [t0 |-> now, n |-> 1, miss |-> miss, hit |-> hit, failed |-> FALSE,
              fresh |-> FALSE]
        ELSE [NoWindow EXCEPT !.fresh = FALSE]

\* history: the runs of reads per key, ended by a finished write; the last
\* finished write, and the one each request found finished when it started
NoteLists ==
    chist' =
       [win |->
          IF \E w \in Writers : wreq[w].pc = "invalidate" /\ wreq'[w].pc = "idle"
          THEN [k \in ListKeys |-> NoWindow]
          ELSE [k \in ListKeys |->
                  IF \E c \in Listers : lreq[c].key = k /\ lreq[c].pc = "get"
                                         /\ lreq'[c].pc # "get"
                  THEN WindowAfterGet(k)
                  ELSE IF \E c \in Listers : lreq[c].key = k /\ lreq[c].pc = "query"
                                              /\ lreq'[c].pc = "done"
                  THEN [chist.win[k] EXCEPT !.failed = TRUE]
                  ELSE chist.win[k]],
        finished |->
          IF \E w \in Writers : wreq[w].pc = "invalidate" /\ wreq'[w].pc = "idle"
          THEN articles ELSE chist.finished,
        after |->
          [c \in Listers |->
             IF lreq[c].pc \in {"idle", "done"} /\ lreq'[c].pc \notin {"idle", "done"}
             THEN chist.finished ELSE chist.after[c]]]

\* history of the overlapping run: the last finished write, and the one
\* each request found finished when it started (the runs of reads are not
\* followed)
NoteFinished ==
    chist' =
       [chist EXCEPT
          !.finished =
             IF \E w \in Writers : wreq[w].pc = "invalidate" /\ wreq'[w].pc = "idle"
             THEN articles ELSE @,
          !.after =
             [c \in Listers |->
                IF lreq[c].pc \in {"idle", "done"} /\ lreq'[c].pc \notin {"idle", "done"}
                THEN chist.finished ELSE @[c]]]

\* listArticles and the write handlers, any number at a time
ListsNext ==
    \/ \E c \in Listers, k \in ListKeys :
          ListStart(c, k) /\ NoteFinished /\ UNCHANGED <<mail, net, vault, aux>>
    \/ \E c \in Listers : ListGet(c) /\ NoteFinished /\ UNCHANGED <<mail, net, vault, aux>>
    \/ \E c \in Listers : ListQuery(c) /\ NoteFinished /\ UNCHANGED <<mail, net, vault, aux>>
    \/ \E c \in Listers : ListSet(c) /\ NoteFinished /\ UNCHANGED <<mail, net, vault, aux>>
    \/ \E w \in Writers : WriteStore(w) /\ NoteFinished /\ UNCHANGED <<mail, net, vault, aux>>
    \/ \E w \in Writers : WriteInvalidate(w) /\ NoteFinished /\ UNCHANGED <<mail, net, vault, aux>>
    \/ ListTick /\ NoteFinished /\ UNCHANGED <<mail, net, vault, aux>>

ListsSpec == Init /\ [][ListsNext]_vars

\* the same handlers one request at a time, a request taking no time
ListsSeqNext ==
    \/ \E c \in Listers, k \in ListKeys :
          ListsIdle /\ ListStart(c, k) /\ NoteLists /\ UNCHANGED <<mail, net, vault, aux>>
    \/ \E c \in Listers : ListGet(c) /\ NoteLists /\ UNCHANGED <<mail, net, vault, aux>>
    \/ \E c \in Listers : ListQuery(c) /\ NoteLists /\ UNCHANGED <<mail, net, vault, aux>>
    \/ \E c \in Listers : ListSet(c) /\ NoteLists /\ UNCHANGED <<mail, net, vault, aux>>
    \/ \E w \in Writers :
          ListsIdle /\ WriteStore(w) /\ NoteLists /\ UNCHANGED <<mail, net, vault, aux>>
    \/ \E w \in Writers : WriteInvalidate(w) /\ NoteLists /\ UNCHANGED <<mail, net, vault, aux>>
    \/ ListsIdle /\ ListTick /\ NoteLists /\ UNCHANGED <<mail, net, vault, aux>>

ListsSeqSpec == Init /\ [][ListsSeqNext]_vars

C15_NoStaleHitAfterWrite ==
    \A c \in Listers :
       (lreq[c].pc = "done" /\ lreq[c].hit) => lreq[c].items >= chist.after[c]

\* ================================================================ vault
\* AES-GCM with an ideal tag: bytes are 0 or 1, the ciphertext is the
\* plaintext under a key stream of (key, nonce, position), the tag is an
\* injective code of (key, nonce, ciphertext) in one element. The base64
\* text has two symbols per element.
Bytes == 0..1
Plaintexts == UNION {[1..n -> Bytes] : n \in 0..MaxPlain}
Secrets == {"", "selfecho-imap-secret", "other"}

Pair(a, b) == ((a + b) * (a + b + 1)) \div 2 + b

RECURSIVE Code(_)
Code(q) == IF q = <<>> THEN 0 ELSE 1 + Pair(Head(q), Code(Tail(q)))

\* sha256.Sum256: one value per secret
Sum256(secret) == IF secret = "selfecho-imap-secret" THEN 1 ELSE 2

\* deriveKey
deriveKey(secret) ==
    [sum |-> Sum256(IF secret = "" THEN "selfecho-imap-secret" ELSE secret),
     len |-> 32]

\* aes.NewCipher(key) returns no error
NewCipherOk(key) == key.len \in {16, 24, 32}

KeyStream(key, nonce, i) == (key.sum + Code(nonce) + i) % 2

Tag(key, nonce, data) == 2 + Pair(Pair(key.sum, Code(nonce)), Code(data))

\* gcm.Seal(dst, nonce, plaintext, nil)
SealNoPrefix(dst, key, nonce, plain) ==
    LET data == [i \in 1..Len(plain) |-> (plain[i] + KeyStream(key, nonce, i)) % 2]
    IN  data \o <<Tag(key, nonce, data)>>

Seal(dst, key, nonce, plain) ==
    LET data == [i \in 1..Len(plain) |-> (plain[i] + KeyStream(key, nonce, i)) % 2]
    IN  dst \o data \o <<Tag(key, nonce, data)>>

\* gcm.Open(nil, nonce, data, nil)
OpenUnverified(key, nonce, sealed) ==
    IF Len(sealed) < 1 THEN [err |-> TRUE, plain |-> <<>>]
    ELSE [err |-> FALSE,
          plain |-> [i \in 1..(Len(sealed) - 1) |->
                       (sealed[i] + 2 - KeyStream(key, nonce, i)) % 2]]

Open(key, nonce, sealed) ==
    IF Len(sealed) < 1 THEN [err |-> TRUE, plain |-> <<>>]
    ELSE LET data == SubSeq(sealed, 1, Len(sealed) - 1)
         IN  IF sealed[Len(sealed)] # Tag(key, nonce, data)
             THEN [err |-> TRUE, plain |-> <<>>]
             ELSE [err |-> FALSE,
                   plain |-> [i \in 1..Len(data) |->
                                (data[i] + 2 - KeyStream(key, nonce, i)) % 2]]

\* base64.StdEncoding.EncodeToString
EncodeToString(raw) ==
    [i \in 1..(2 * Len(raw)) |->
        IF i % 2 = 1 THEN raw[(i + 1) \div 2] \div 1024
        ELSE raw[i \div 2] % 1024]

\* base64.StdEncoding.DecodeString
DecodeString(text) ==
    IF Len(text) % 2 = 1 \/ \E i \in 1..Len(text) : text[i] \notin 0..1023
    THEN [err |-> TRUE, raw |-> <<>>]
    ELSE [err |-> FALSE,
          raw |-> [i \in 1..(Len(text) \div 2) |->
                     text[2 * i - 1] * 1024 + text[2 * i]]]

\* encryptSecret: nonce := make([]byte, gcm.NonceSize()) is all zero and is
\* used as it is
encryptSecret(key, plaintext) ==
    IF ~NewCipherOk(key) THEN [err |-> TRUE, text |-> <<>>]
    ELSE LET nonce == [i \in 1..NonceSize |-> 0]
             ct == Seal(nonce, key, nonce, plaintext)
         IN  [err |-> FALSE, text |-> EncodeToString(ct)]

\* decryptSecret
decryptSecret(key, cipherText) ==
    LET dec == DecodeString(cipherText)
        raw == dec.raw
    IN  IF dec.err THEN [err |-> TRUE, plain |-> <<>>]
        ELSE IF ~NewCipherOk(key) THEN [err |-> TRUE, plain |-> <<>>]
        ELSE IF Len(raw) < NonceSize THEN [err |-> TRUE, plain |-> <<>>]
        ELSE Open(key, SubSeq(raw, 1, NonceSize),
                  SubSeq(raw, NonceSize + 1, Len(raw)))

\* the texts cut short
Truncations(text) == {SubSeq(text, 1, n) : n \in 0..(Len(text) - 1)}

\* the texts of the raw bytes with one element replaced: by another byte
\* value or, for the tag, by its neighbour or the tag of another sealing
Alterations(text) ==
    LET raw == DecodeString(text).raw
        tags == {DecodeString(vault.made[j].text).raw[
                     Len(DecodeString(vault.made[j].text).raw)] :
                     j \in 1..Len(vault.made)}
        Cand(i) == IF i < Len(raw) THEN 0..2
                   ELSE (0..2) \cup {raw[i] + 1} \cup tags
    IN  {EncodeToString([raw EXCEPT ![i] = v]) :
            <<i, v>> \in {<<j, w>> \in (1..Len(raw)) \X (0..(raw[Len(raw)] + 1)) :
                             w \in Cand(j) /\ w # raw[j]}}

\* createImapAccount: encryptSecret(s.imapKey, payload.Password)
VaultEncrypt(secret, plain) ==
    /\ Len(vault.made) < MaxSeals
    /\ LET key == deriveKey(secret)
           r == encryptSecret(key, plain)
       IN  /\ ~r.err
           /\ vault' = [vault EXCEPT !.made =
                 Append(@, [key |-> key, plain |-> plain, text |-> r.text])]

\* pickImapAccount: decryptSecret(s.imapKey, acc.Password), on the text of
\* sealing k as it is, cut short or altered
VaultDecrypt(k, secret) ==
    /\ k \in 1..Len(vault.made)
    /\ \E text \in {vault.made[k].text} \cup Truncations(vault.made[k].text)
                                      \cup Alterations(vault.made[k].text) :
         LET key == deriveKey(secret)
             r == decryptSecret(key, text)
         IN  vault' = [vault EXCEPT !.last =
                [of |-> k, key |-> key.sum, text |-> text, err |-> r.err,
                 plain |-> r.plain]]

VaultNext ==
    \/ \E secret \in Secrets, plain \in Plaintexts :
          VaultEncrypt(secret, plain) /\ UNCHANGED <<mail, net, lists, aux>>
    \/ \E k \in 1..MaxSeals, secret \in Secrets :
          VaultDecrypt(k, secret) /\ UNCHANGED <<mail, net, lists, aux>>

VaultSpec == Init /\ [][VaultNext]_vars

\* the last decryptSecret was given the text of sealing j as it was made,
\* and that sealing's key
LastIntact(j) ==
    /\ vault.last.of # 0
    /\ vault.last.key = vault.made[j].key.sum
    /\ vault.last.text = vault.made[j].text

\* C16: decryptSecret(key, encryptSecret(key, P)) returns P and no error.
C16_RoundTrip ==
    \A j \in 1..Len(vault.made) :
       LastIntact(j) => (~vault.last.err /\ vault.last.plain = vault.made[j].plain)

\* a plaintext of the greatest length has made the round trip
C16_Witness ==
    \E j \in 1..Len(vault.made) :
       /\ LastIntact(j)
       /\ Len(vault.made[j].plain) = MaxPlain
       /\ vault.last.plain = vault.made[j].plain

\* C17: decryptSecret returns an error and no plaintext when its key is not
\* the sealing's key, or its input is the sealing's text cut short or with
\* an element of the nonce, the ciphertext or the tag altered (and the
\* result is not itself a text sealed under the key given).
C17_TamperedInputFails ==
    (vault.last.of # 0 /\ ~\E j \in 1..Len(vault.made) : LastIntact(j)) =>
       (vault.last.err /\ vault.last.plain = <<>>)

\* the sealing's own text was refused under another key
C17_Witness ==
    /\ vault.last.of # 0
    /\ vault.last.key # vault.made[vault.last.of].key.sum
    /\ vault.last.text = vault.made[vault.last.of].text
    /\ Len(vault.made[vault.last.of].plain) > 0
    /\ vault.last.err

\* the nonce a sealing's text carries
NonceOf(text) == SubSeq(DecodeString(text).raw, 1, NonceSize)

\* C18: no two calls of encryptSecret under one key use the same nonce, and
\* two sealings of one plaintext under one key give different texts.
C18_FreshNonce ==
    \A i, j \in 1..Len(vault.made) :
       (i # j /\ vault.made[i].key = vault.made[j].key) =>
          /\ NonceOf(vault.made[i].text) # NonceOf(vault.made[j].text)
          /\ vault.made[i].plain = vault.made[j].plain =>
                vault.made[i].text # vault.made[j].text

\* ---------------------------------------------------------------- fetch window
\* the step in which runner r's syncImapAccount selects INBOX and fetches
FetchesWindow(r) ==
    /\ sync[r].pc = "connect"
    /\ sync'[r].pc \in {"rollover", "loop"}

\* the step in which handler h's fetchImapMessages returns its result
ListsWindow(h) ==
    /\ req[h].pc = "live"
    /\ req[h].kind = "list"
    /\ req'[h].pc = "done"
    /\ ~req'[h].liveErr

\* C19: for a mailbox of n >= 1 messages, syncImapAccount and
\* fetchImapMessages fetch exactly the positions max(1, n - limit + 1) .. n:
\* min(n, limit) of them, the most recent ones, none older.
C19_FetchWindow ==
    [][LET n == Len(mailbox)
       IN  n >= 1 =>
             /\ \A r \in Runners :
                  FetchesWindow(r) =>
                    LET lo == Max(1, n - sync[r].limit + 1)
                        got == sync'[r].fetched
                    IN  /\ Len(got) = Min(n, sync[r].limit)
                        /\ \A k \in 1..Len(got) : got[k] = mailbox[lo + k - 1].uid
             /\ \A h \in Handlers :
                  ListsWindow(h) =>
                    LET got == req'[h].resp.body
                    IN  /\ Len(got) = Min(n, PageLimit)
                        /\ \A k \in 1..Len(got) : got[k].uid = mailbox[n - k + 1].uid
                        /\ \A p \in 1..n :
                              p < Max(1, n - PageLimit + 1) =>
                                \A k \in 1..Len(got) : got[k].uid # mailbox[p].uid
      ]_vars

\* a sync has fetched fewer entries than the mailbox holds: the ones at the
\* last positions, the oldest message not among them
C19_Witness ==
    \E r \in Runners :
       LET got == sync[r].fetched
           n == Len(mailbox)
       IN  /\ sync[r].pc = "loop"
           /\ got # <<>>
           /\ n > Len(got)
           /\ \A k \in 1..Len(got) : got[k] = mailbox[n - Len(got) + k].uid
           /\ \A k \in 1..Len(got) : got[k] # mailbox[1].uid

\* ---------------------------------------------------------------- incremental filter
\* runner r's sync is in its loop and began without an epoch change: the
\* persisted epoch is the one it selected (or none was persisted yet)
LoopsWithoutRollover(r) ==
    /\ sync[r].pc = "loop"
    /\ last_uidvalidity \in {0, sync[r].UidValidity}

\* C20: in a sync without epoch change, the loop neither fetches the detail
\* of nor writes an entry with uid <= the last_uid the sync began with, and
\* every row persisted with uid <= that last_uid is still there afterwards
\* with all its fields (flags included), whatever the remote says now.
C20_WatermarkFilter ==
    [][\A r \in Handlers :
          LoopsWithoutRollover(r) =>
             /\ sync'[r].todo # sync[r].todo => Head(sync[r].todo) > last_uid
             /\ \A k \in 1..Len(sync'[r].txUps) : sync'[r].txUps[k].uid > last_uid
             /\ \A x \in rows : x.uid <= last_uid => x \in rows']_vars

\* a sync is in its loop with a fetched entry at or below the watermark
\* whose flags on the server are no longer those of its persisted row
C20_Witness ==
    \E r \in Handlers :
       /\ LoopsWithoutRollover(r)
       /\ \E k \in 1..Len(sync[r].fetched), j \in 1..Len(mailbox), x \in rows :
             /\ sync[r].fetched[k] <= last_uid
             /\ mailbox[j].uid = sync[r].fetched[k]
             /\ x.uid = mailbox[j].uid
             /\ x.uidvalidity = sync[r].UidValidity
             /\ x.id = mailbox[j].id
             /\ x.seen # mailbox[j].seen
       /\ sync[r].todo # <<>>

\* ---------------------------------------------------------------- store frame
\* the step is a statement of runner r's empty-mailbox path
EmptyPathStep(r) ==
    /\ sync[r].pc \in {"emptyDelete", "emptyUpdate"}
    /\ sync'[r].pc # sync[r].pc

\* C21: a step of a handler (a cache read, the start of a sync, the live
\* fetch, the response) leaves the rows and (last_uid, last_uidvalidity) as
\* they are; a step that changes them is the commit of a sync or a statement
\* of its empty-mailbox path.
C21_OnlySyncWritesStore ==
    [][/\ req' # req => UNCHANGED db
       /\ ~(UNCHANGED db) => \E r \in Runners : CommitsOk(r) \/ EmptyPathStep(r)]_vars

\* a request was answered by the live fetch with messages, and the store
\* holds no row and no watermark
C21_Witness ==
    \E h \in Handlers :
       /\ req[h].pc = "done"
       /\ req[h].tiers # <<>>
       /\ req[h].tiers[Len(req[h].tiers)] = "live"
       /\ ~req[h].liveErr
       /\ req[h].resp.body # <<>>
       /\ rows = {}
       /\ last_uid = 0

\* ---------------------------------------------------------------- account secret
\* the functions that open a session with the account pickImapAccount returned
AcctFns == {"sync", "list", "detail"}

\* pickImapAccount: the row of account k, its password column as it was
\* stored, cut short or altered, under the key of the running server; when
\* decryptSecret fails acc.Password stays the column's text
pickImapAccount(k, secret, fn) ==
    /\ acct.pc = "off"
    /\ k \in 1..Len(vault.made)
    /\ \E text \in {vault.made[k].text} \cup Truncations(vault.made[k].text)
                                      \cup Alterations(vault.made[k].text) :
         LET r == decryptSecret(deriveKey(secret), text)
         IN  /\ text # <<>>
             /\ acct' = [AcctOff EXCEPT !.pc = "dial", !.fn = fn,
                                        !.decErr = r.err,
                                        !.Password =
                                            IF r.err
                                            THEN [sealed |-> TRUE, chars |-> text]
                                            ELSE [sealed |-> FALSE, chars |-> r.plain],
                                        !.secret = vault.made[k].plain]
    /\ UNCHANGED vault

\* client.Dial / client.DialTLS (and StartTLS) of syncImapAccount,
\* fetchImapMessages or fetchImapMessageDetail
AcctDial ==
    /\ acct.pc = "dial"
    /\ \E ok \in BOOLEAN :
         acct' = IF ok THEN [acct EXCEPT !.pc = "login"]
                 ELSE [acct EXCEPT !.pc = "ret", !.err = "dial"]
    /\ UNCHANGED vault

\* c.Login(acc.Username, acc.Password): the server accepts the password the
\* account was created with
AcctLogin ==
    /\ acct.pc = "login"
    /\ acct' = [acct EXCEPT !.logins = @ + 1,
                            !.pc = "ret",
                            !.err = IF /\ ~acct.Password.sealed
                                       /\ acct.Password.chars = acct.secret
                                    THEN "" ELSE "login"]
    /\ UNCHANGED vault

\* the function has returned; the caller is done with the account
AcctReturn ==
    /\ acct.pc = "ret"
    /\ acct' = AcctOff
    /\ UNCHANGED vault

\* createImapAccount: an empty password is refused with 400
AcctCreate(secret, plain) ==
    /\ plain # <<>>
    /\ VaultEncrypt(secret, plain)
    /\ UNCHANGED acct

AcctNext ==
    \/ \E secret \in Secrets, plain \in Plaintexts :
          AcctCreate(secret, plain) /\ UNCHANGED <<mail, net, lists, mime>>
    \/ \E k \in 1..MaxSeals, secret \in Secrets, fn \in AcctFns :
          pickImapAccount(k, secret, fn) /\ UNCHANGED <<mail, net, lists, mime>>
    \/ AcctDial /\ UNCHANGED <<mail, net, lists, mime>>
    \/ AcctLogin /\ UNCHANGED <<mail, net, lists, mime>>
    \/ AcctReturn /\ UNCHANGED <<mail, net, lists, mime>>

AcctSpec == Init /\ [][AcctNext]_vars

\* C22: when decryptSecret failed on the stored secret of the account, the
\* call made with the account attempts no login and returns an error before
\* authentication.
C22_NoLoginWithoutSecret ==
    acct.decErr => (acct.logins = 0 /\ acct.pc \notin {"login"})

\* ---------------------------------------------------------------- list cache, one call
\* listCache.stats: len(c.data)
stats(data) == Cardinality({k \in ListKeys : data[k] # NoEntry})

\* the step is the cache.get of lister c
Gets(c) == lreq[c].pc = "get" /\ lreq'[c].pc # "get"

\* the step is the cache.set of lister c
Sets(c) == lreq[c].pc = "set" /\ lreq'[c].pc # "set"

\* the step is the invalidateAll of writer w
Invalidates(w) == wreq[w].pc = "invalidate" /\ wreq'[w].pc # "invalidate"

\* C23: get misses exactly when the key is absent or the entry is older
\* than the TTL (age = TTL is a hit), counts exactly one hit or one miss, and
\* leaves the map as it is; set overwrites its key with the new items and
\* the current time; the map changes in a set or an invalidateAll only, so
\* an expired entry stays and is counted by stats.
C23_LazyExpiry ==
    [][/\ \A c \in Listers :
            Gets(c) =>
               LET e == cache.data[lreq[c].key]
                   miss == e = NoEntry \/ now - e.cachedAt > ListTTL
               IN  /\ cache'.misses = cache.misses + (IF miss THEN 1 ELSE 0)
                   /\ cache'.hits = cache.hits + (IF miss THEN 0 ELSE 1)
                   /\ lreq'[c].hit = ~miss
                   /\ cache'.data = cache.data
                   /\ stats(cache'.data) = stats(cache.data)
       /\ \A c \in Listers :
            Sets(c) =>
               /\ cache'.data[lreq[c].key] =
                     [items |-> lreq[c].items, cachedAt |-> now]
               /\ \A k \in ListKeys \ {lreq[c].key} : cache'.data[k] = cache.data[k]
               /\ cache'.hits = cache.hits /\ cache'.misses = cache.misses
       /\ \A w \in Writers : Invalidates(w) => stats(cache'.data) = 0
       /\ cache'.data # cache.data =>
             \/ \E c \in Listers : Sets(c)
             \/ \E w \in Writers : Invalidates(w)]_vars

\* a get has just missed on an entry older than the TTL, which is still in
\* the map and counted by stats, after an earlier get was a hit
C23_Witness ==
    \E c \in Listers :
       /\ lreq[c].pc = "query"
       /\ cache.data[lreq[c].key] # NoEntry
       /\ now - cache.data[lreq[c].key].cachedAt > ListTTL
       /\ stats(cache.data) >= 1
       /\ cache.hits >= 1

\* ================================================================ parseBody
\* characters of a content: a letter, the two that escapeText rewrites, and
\* "?" for a byte that is not valid UTF-8
MimeChars == {"a", "<", "\n", "?"}
MediaTypes == {"text/html", "text/plain", "image/png"}

SeqsUpTo(S, n) == UNION {[1..m -> S] : m \in 0..n}

\* a part NextPart returns: whether its header is a *mail.InlineHeader, its
\* media type, and the bytes decodePart returns for it
Parts == [inline : BOOLEAN, mt : MediaTypes, data : SeqsUpTo(MimeChars, MaxData)]

Suffixes(q) == {SubSeq(q, n, Len(q)) : n \in 1..(Len(q) + 1)}

\* the bodies: one that mail.CreateReader refuses (raw: its bytes; left:
\* what the reader still holds after CreateReader has read from it), or one
\* whose parts NextPart returns in order, call number `broken` of NextPart
\* returning an error other than io.EOF (0: none does)
Bodies ==
    {[NoBody EXCEPT !.parses = FALSE, !.raw = r, !.left = l] :
        <<r, l>> \in {<<x, y>> \in SeqsUpTo(MimeChars, MaxRaw) \X SeqsUpTo(MimeChars, MaxRaw) :
                         y \in Suffixes(x)}}
    \cup
    {[NoBody EXCEPT !.parts = ps, !.broken = b] :
        <<ps, b>> \in {<<x, y>> \in SeqsUpTo(Parts, MaxParts) \X (0..(MaxParts + 1)) :
                          y <= Len(x) + 1}}

\* safeUTF8: bytes.ToValidUTF8(s, []byte{})
RECURSIVE safeUTF8(_)
safeUTF8(q) ==
    IF q = <<>> THEN <<>>
    ELSE (IF Head(q) = "?" THEN <<>> ELSE <<Head(q)>>) \o safeUTF8(Tail(q))

\* escapeText: strings.ReplaceAll(html.EscapeString(s), "\n", "<br>")
RECURSIVE escapeText(_)
escapeText(q) ==
    IF q = <<>> THEN <<>>
    ELSE (IF Head(q) = "<" THEN <<"&lt;">>
          ELSE IF Head(q) = "\n" THEN <<"<br>">>
          ELSE <<Head(q)>>) \o escapeText(Tail(q))

\* the loop of parseBody from call i of NextPart on, and what follows it
RECURSIVE Walk(_, _, _, _)
Walk(b, i, htmlBody, textBody) ==
    IF b.broken = i THEN [body |-> <<>>, err |-> TRUE]
    ELSE IF i > Len(b.parts)
    THEN IF htmlBody # <<>> THEN [body |-> htmlBody, err |-> FALSE]
         ELSE IF textBody # <<>> THEN [body |-> escapeText(textBody), err |-> FALSE]
         ELSE NoResult
    ELSE LET p == b.parts[i]
         IN  IF ~p.inline THEN Walk(b, i + 1, htmlBody, textBody)
             ELSE IF p.mt = "text/html" /\ Len(p.data) > 0
             THEN Walk(b, i + 1, safeUTF8(p.data), textBody)
             ELSE IF p.mt = "text/plain" /\ textBody = <<>>
             THEN Walk(b, i + 1, htmlBody, safeUTF8(p.data))
             ELSE Walk(b, i + 1, htmlBody, textBody)

\* parseBody
parseBody(b) ==
    IF ~b.parses THEN [body |-> escapeText(b.left), err |-> FALSE]
    ELSE Walk(b, 1, <<>>, <<>>)

\* fetchImapMessageDetail: body, _ := parseBody(msg.GetBody(section))
MimeParse(b) ==
    /\ mime.pc = "idle"
    /\ mime' = [pc |-> "parsed", in |-> b, out |-> parseBody(b), Body |-> <<>>]

\* fetchImapMessageDetail: return imapMessage{..., Body: safeUTF8(body)}, nil
MimeReturn ==
    /\ mime.pc = "parsed"
    /\ mime' = [mime EXCEPT !.pc = "message", !.Body = safeUTF8(mime.out.body)]

\* the caller has taken the message
MimeNextMessage ==
    /\ mime.pc = "message"
    /\ mime' = MimeIdle

MimeNext ==
    \/ \E b \in Bodies : MimeParse(b) /\ UNCHANGED <<mail, net, lists, vault, acct>>
    \/ MimeReturn /\ UNCHANGED <<mail, net, lists, vault, acct>>
    \/ MimeNextMessage /\ UNCHANGED <<mail, net, lists, vault, acct>>

MimeSpec == Init /\ [][MimeNext]_vars

\* the inline text/html parts with content, the inline text/plain parts
HtmlParts(b) ==
    {i \in 1..Len(b.parts) :
        b.parts[i].inline /\ b.parts[i].mt = "text/html" /\ b.parts[i].data # <<>>}

Least(S) == CHOOSE i \in S : \A j \in S : i <= j

\* C24: for a body whose parts are all read and that has two or more
\* non-empty inline text/html parts, parseBody returns the content of the
\* first of them.
C24_FirstHtmlPartWins ==
    LET b == mime.in
    IN  (/\ mime.pc # "idle" /\ b.parses /\ b.broken = 0
         /\ Cardinality(HtmlParts(b)) >= 2) =>
           /\ ~mime.out.err
           /\ mime.out.body = safeUTF8(b.parts[Least(HtmlParts(b))].data)

\* C25: parseBody returns no error for any body; a body that does not parse
\* yields its raw text escaped; a message is made of every body.
C25_NeverFailsHard ==
    LET b == mime.in
    IN  mime.pc # "idle" =>
           /\ ~mime.out.err
           /\ ~b.parses => mime.out.body = escapeText(b.raw)

\* ================================================================ content by uid
\* the remote message with uid u, if there is one
WithUid(u) == {j \in 1..Len(mailbox) : mailbox[j].uid = u}

\* C26: a row written by the loop of a sync under uid u holds the content
\* and flags of the remote message whose uid is u, and a getImapMessage
\* answered by the live fetch returns the message whose uid is the one asked
\* for.
C26_RowContentMatchesUid ==
    [][/\ \A r \in Runners :
            (sync[r].pc = "loop" /\ Len(sync'[r].txUps) = Len(sync[r].txUps) + 1) =>
               LET row == sync'[r].txUps[Len(sync'[r].txUps)]
               IN  \E j \in WithUid(row.uid) :
                      row.id = mailbox[j].id /\ row.seen = mailbox[j].seen
       /\ \A h \in Handlers :
            (/\ req[h].pc = "live" /\ req[h].kind = "get"
             /\ req'[h].pc = "done" /\ req'[h].resp.status = 200) =>
               /\ req'[h].resp.body[1].uid = req[h].uid
               /\ \E j \in WithUid(req[h].uid) :
                      req'[h].resp.body[1].id = mailbox[j].id]_vars

\* ================================================================ epochs of the rows
\* C27: all rows carry the persisted last_uidvalidity, so that no two rows
\* share a uid and readCachedMessage, which selects by uid alone, matches at
\* most one row.
C27_SingleEpochCache ==
    /\ \A x \in rows : x.uidvalidity = last_uidvalidity
    /\ \A u \in 1..MaxMsgs : Cardinality(readCachedMessage(rows, u)) <= 1

\* ================================================================ watermark
\* C28: the commit of a sync of a non-empty mailbox that observed the
\* persisted epoch never lowers last_uid, whatever snapshot of the account
\* the sync started from and whatever was committed since.
C28_MonotonicWatermark ==
    [][\A r \in Runners :
          (CommitsOk(r) /\ sync[r].UidValidity = last_uidvalidity) =>
             last_uid' >= last_uid]_vars

\* ================================================================ empty-mailbox path
\* C29: when the empty-mailbox path returns, either it returns an error, or
\* both its statements took effect; it never leaves last_uid = 0 beside
\* remaining rows, nor an emptied table beside a watermark it did not reset.
C29_EmptyResetAllOrNothing ==
    [][\A r \in Runners :
          EmptyReturns(r) =>
             LET reset == last_uid' = 0 /\ last_uidvalidity' = sync[r].UidValidity
             IN  /\ sync'[r].err = "" => (rows' = {} /\ reset)
                 /\ ~(last_uid' = 0 /\ rows' # {})
                 /\ rows' = {} => reset]_vars

\* ================================================================ paging
\* the step is the 200 response of listImapMessages of handler h
ListAnswers(h) ==
    /\ req[h].kind = "list"
    /\ req[h].pc \notin {"idle", "done"}
    /\ req'[h].pc = "done"
    /\ req'[h].resp.status = 200

\* C30: a list request answered while the cache is not empty and its offset
\* is at or beyond the number of cached rows returns an empty page and the
\* cached count as its total.
C30_PagePastEndIsEmpty ==
    [][\A h \in Handlers :
          (/\ ListAnswers(h)
           /\ rows # {}
           /\ (req[h].page - 1) * PageLimit >= countCachedMessages(rows)) =>
             /\ req'[h].resp.body = <<>>
             /\ req'[h].resp.total = countCachedMessages(rows)]_vars

====
